---- MODULE Spec2Model ----
(***************************************************************************)
(* A model of the clanker "input" tool (src/src/index.ts): one invocation  *)
(* of execute, from its arguments to its return value, with every external *)
(* process it awaits (child_process.exec) as one step.                     *)
(*                                                                         *)
(* Text is a sequence of one-character strings, so that the regular        *)
(* expressions, the escaping and String.includes are computed character by *)
(* character.  The fixed text of a command line or of a message is kept as *)
(* one element (a chunk of several characters); no chunk of the source     *)
(* holds or overlaps one of the words the code searches for.               *)
(***************************************************************************)
EXTENDS Integers, Sequences, FiniteSets, TLC

-----------------------------------------------------------------------------
(* Characters and strings *)

UpperChars == <<"A", "B", "C", "D", "E", "F", "G", "H", "I", "J", "K", "L", "M",
                "N", "O", "P", "Q", "R", "S", "T", "U", "V", "W", "X", "Y", "Z">>

LowerChars == <<"a", "b", "c", "d", "e", "f", "g", "h", "i", "j", "k", "l", "m",
                "n", "o", "p", "q", "r", "s", "t", "u", "v", "w", "x", "y", "z">>

DigitChars == <<"0", "1", "2", "3", "4", "5", "6", "7", "8", "9">>

Range(s) == {s[k] : k \in 1..Len(s)}

\* The least number of a non-empty set of numbers.
Min(S) == CHOOSE a \in S : \A b \in S : a <= b

\* The greatest number of a non-empty set of numbers.
Max(S) == CHOOSE a \in S : \A b \in S : a >= b

\* The lower-case letter of each upper-case letter.
LowerOf == [c \in Range(UpperChars) |->
               LowerChars[CHOOSE k \in 1..Len(UpperChars) : UpperChars[k] = c]]

\* A character left in its case.
LowerCharKeepingCase(c) == c

\* String.prototype.toLowerCase, one character.
LowerChar(c) == IF c \in DOMAIN LowerOf THEN LowerOf[c] ELSE c

\* String.prototype.toLowerCase.
toLowerCase(s) == [k \in 1..Len(s) |-> LowerChar(s[k])]

WordChars == Range(UpperChars) \cup Range(LowerChars) \cup Range(DigitChars) \cup {"_"}

\* The class \w of a regular expression: [A-Za-z0-9_].
IsWordChar(c) == c \in WordChars

\* The class \s, as far as the modelled texts go.
IsSpace(c) == c \in {" ", "\n", "\t", "\r"}

\* The text between the first and the last position of keep, or the empty text.
Between(s, keep) == IF keep = {} THEN <<>> ELSE SubSeq(s, Min(keep), Max(keep))

\* String.prototype.trim.
trim(s) == Between(s, {k \in 1..Len(s) : ~IsSpace(s[k])})

\* String.prototype.includes.
includes(s, needle) ==
    \E p \in 1..(Len(s) + 1) :
        /\ p + Len(needle) - 1 <= Len(s)
        /\ \A k \in 1..Len(needle) : s[p + k - 1] = needle[k]

\* Number to decimal text (template literal `${n}`), n >= 0.
RECURSIVE NumberToString(_)
NumberToString(n) ==
    IF n < 10 THEN <<DigitChars[n + 1]>>
    ELSE NumberToString(n \div 10) \o <<DigitChars[(n % 10) + 1]>>

-----------------------------------------------------------------------------
(* generateAnswerKey *)

\* Whether the literal lit (lower case) matches s at position p under the /i flag.
MatchesAt(s, p, lit) ==
    /\ p >= 1
    /\ p + Len(lit) - 1 <= Len(s)
    /\ \A k \in 1..Len(lit) : LowerChar(s[p + k - 1]) = lit[k]

\* The last position of the run of word characters that starts at q (greedy \w+).
WordRunEnd(s, q) ==
    CHOOSE e \in q..Len(s) :
        /\ \A k \in q..e : IsWordChar(s[k])
        /\ (e = Len(s) \/ ~IsWordChar(s[e + 1]))

\* The group (\w+) matched from position q on.
WordRun(s, q) == SubSeq(s, q, WordRunEnd(s, q))

\* Where (\w+) may start once the literal has matched up to position a - 1: after
\* each alternative of the optional group that matches there (0: it does not), in
\* their order, and last at a itself (the group skipped).
GroupStarts(s, a, opts) ==
    [k \in 1..(Len(opts) + 1) |->
        IF k <= Len(opts)
        THEN IF MatchesAt(s, a, opts[k]) THEN a + Len(opts[k]) ELSE 0
        ELSE a]

\* The first of the starts at which a word character stands, or 0.
FirstWordStart(s, starts) ==
    IF \E k \in DOMAIN starts : starts[k] \in 1..Len(s) /\ IsWordChar(s[starts[k]])
    THEN starts[Min({k \in DOMAIN starts : starts[k] \in 1..Len(s) /\ IsWordChar(s[starts[k]])})]
    ELSE 0

WordRunOrNone(s, q) == IF q = 0 THEN <<>> ELSE WordRun(s, q)

\* The capture of /lit(?:opt1|opt2)?(\w+)/i for a match that starts at position
\* p, or <<>>.
PhraseCaptureAt(s, p, lit, opts) ==
    IF MatchesAt(s, p, lit)
    THEN WordRunOrNone(s, FirstWordStart(s, GroupStarts(s, p + Len(lit), opts)))
    ELSE <<>>

\* The capture of /(\w+)c/ for a match that starts at position p, or <<>>.
SuffixCaptureAt(s, p, c) ==
    IF IsWordChar(s[p]) /\ WordRunEnd(s, p) < Len(s) /\ s[WordRunEnd(s, p) + 1] = c
    THEN WordRun(s, p)
    ELSE <<>>

\* The first text of caps that is not empty, or <<>>.
FirstCapture(caps) ==
    IF \E p \in DOMAIN caps : caps[p] # <<>>
    THEN caps[Min({p \in DOMAIN caps : caps[p] # <<>>})]
    ELSE <<>>

\* The patterns array: a phrase, then an optional group, then (\w+); or (\w+)
\* before a colon or a question mark.
Patterns ==
    << [lit |-> <<"w", "h", "a", "t", " ", "i", "s", " ">>,
        opts |-> << <<"y", "o", "u", "r", " ">>, <<"t", "h", "e", " ">> >>],
       [lit |-> <<"e", "n", "t", "e", "r", " ">>,
        opts |-> << <<"y", "o", "u", "r", " ">>, <<"t", "h", "e", " ">> >>],
       [lit |-> <<"c", "h", "o", "o", "s", "e", " ">>,
        opts |-> << <<"y", "o", "u", "r", " ">>, <<"a", " ">> >>],
       [lit |-> <<"s", "e", "l", "e", "c", "t", " ">>,
        opts |-> << <<"y", "o", "u", "r", " ">>, <<"a", " ">> >>],
       [lit |-> <<"p", "r", "o", "v", "i", "d", "e", " ">>,
        opts |-> << <<"y", "o", "u", "r", " ">>, <<"t", "h", "e", " ">> >>],
       [suffix |-> ":"],
       [suffix |-> "?"] >>

\* match[1] of prompt.match(pattern): the capture of the leftmost match, or <<>>.
MatchCapture(s, pattern) ==
    FirstCapture([p \in 1..Len(s) |->
                     IF "suffix" \in DOMAIN pattern
                     THEN SuffixCaptureAt(s, p, pattern.suffix)
                     ELSE PhraseCaptureAt(s, p, pattern.lit, pattern.opts)])

\* String.prototype.split(/\s+/): the pieces between the runs of white space.
RECURSIVE SplitWords(_, _)
SplitWords(s, acc) ==
    IF s = <<>> THEN <<acc>>
    ELSE IF IsSpace(s[1])
         THEN IF Len(s) > 1 /\ IsSpace(s[2])
              THEN SplitWords(Tail(s), acc)
              ELSE <<acc>> \o SplitWords(Tail(s), <<>>)
         ELSE SplitWords(Tail(s), Append(acc, s[1]))

StopWords ==
    { <<"w", "h", "a", "t">>, <<"e", "n", "t", "e", "r">>, <<"y", "o", "u", "r">>,
      <<"t", "h", "e">>, <<"p", "l", "e", "a", "s", "e">>,
      <<"c", "h", "o", "o", "s", "e">>, <<"s", "e", "l", "e", "c", "t">> }

\* words.find(w => w.length > 3 && !stop.includes(w)), or <<>>.
FindSignificant(words) ==
    FirstCapture([k \in 1..Len(words) |->
                     IF Len(words[k]) > 3 /\ words[k] \notin StopWords THEN words[k] ELSE <<>>])

\* The index itself in the name, not the index plus one.
WordOrIndexFromZero(word, index) ==
    IF word # <<>> THEN word
    ELSE <<"a", "n", "s", "w", "e", "r">> \o NumberToString(index)

\* significantWord || `answer${index + 1}`
WordOrIndex(word, index) ==
    IF word # <<>> THEN word
    ELSE <<"a", "n", "s", "w", "e", "r">> \o NumberToString(index + 1)

\* The loop over the patterns found the capture cap (or none).
KeyOf(cap, prompt, index) ==
    IF cap # <<>> THEN toLowerCase(cap)
    ELSE WordOrIndex(FindSignificant(SplitWords(toLowerCase(prompt), <<>>)), index)

\* The last text of caps that is not empty, or <<>>.
LastCapture(caps) ==
    IF \E p \in DOMAIN caps : caps[p] # <<>>
    THEN caps[Max({p \in DOMAIN caps : caps[p] # <<>>})]
    ELSE <<>>

\* The last pattern that matches supplies the key.
generateAnswerKeyLastPattern(prompt, index) ==
    KeyOf(LastCapture([k \in 1..Len(Patterns) |-> MatchCapture(prompt, Patterns[k])]),
          prompt, index)

generateAnswerKey(prompt, index) ==
    KeyOf(FirstCapture([k \in 1..Len(Patterns) |-> MatchCapture(prompt, Patterns[k])]),
          prompt, index)

-----------------------------------------------------------------------------
(* Objects with optional properties: a record that has the supplied fields only *)

Has(o, f) == f \in DOMAIN o

\* o.f, or d when the property is undefined.
Get(o, f, d) == IF Has(o, f) THEN o[f] ELSE d

\* A test for undefined alone, which lets the empty string through.
NoTextUndefinedOnly(o, f) == ~Has(o, f)

\* !o.f for a string: undefined or empty.
NoText(o, f) == ~Has(o, f) \/ o[f] = <<>>

\* o.f || d for a string.
TextOr(o, f, d) == IF NoText(o, f) THEN d ELSE o[f]

\* A test for undefined alone, which lets the empty array through.
NoOptionsUndefinedOnly(o) == ~Has(o, "options")

\* !options || options.length === 0
NoOptions(o) == ~Has(o, "options") \/ Len(o.options) = 0

-----------------------------------------------------------------------------
(* Escaping and command lines *)

\* String.prototype.replace(/c/g, rep) for a one-character pattern c.
RECURSIVE ReplaceAll(_, _, _)
ReplaceAll(s, c, rep) ==
    IF s = <<>> THEN <<>>
    ELSE (IF s[1] = c THEN rep ELSE <<s[1]>>) \o ReplaceAll(Tail(s), c, rep)

\* .replace(/"/g, '\\"'): the zenity, kdialog and terminal adapters.
EscapeDoubleQuotes(s) == ReplaceAll(s, "\"", <<"\\", "\"">>)

\* The replacements of the AppleScript adapters without the first one: a
\* backslash is left alone.
EscapeAppleScriptKeepingBackslash(s) ==
    ReplaceAll(
        ReplaceAll(
            ReplaceAll(s, "\"", <<"\\", "\"">>),
            "'", <<"'", "\\", "'", "'">>),
        "\n", <<" ">>)

\* The four replacements of the AppleScript adapters, in their order.
EscapeAppleScript(s) ==
    ReplaceAll(
        ReplaceAll(
            ReplaceAll(
                ReplaceAll(s, "\\", <<"\\", "\\">>),
                "\"", <<"\\", "\"">>),
            "'", <<"'", "\\", "'", "'">>),
        "\n", <<" ">>)

\* .replace(/'/g, "''"): the PowerShell adapters.
EscapePowerShell(s) == ReplaceAll(s, "'", <<"'", "'">>)

\* Array.prototype.join of the texts parts[1..n] with sep between them.
RECURSIVE Join(_, _)
Join(parts, sep) ==
    IF parts = <<>> THEN <<>>
    ELSE IF Len(parts) = 1 THEN parts[1]
         ELSE parts[1] \o sep \o Join(Tail(parts), sep)

\* A call of an adapter: [prompt, defaultValue, title, password, options], where an
\* undefined defaultValue or title is the empty text (the adapters test them
\* with || and ?: only).
ZenityDialogCommand(c) ==
    <<"zenity --entry --text=\"">> \o EscapeDoubleQuotes(c.prompt)
    \o <<"\" --title=\"">>
    \o EscapeDoubleQuotes(IF c.title = <<>> THEN <<"Input Required">> ELSE c.title)
    \o <<"\"">>
    \o (IF c.defaultValue # <<>>
        THEN <<" --entry-text=\"">> \o EscapeDoubleQuotes(c.defaultValue) \o <<"\"">>
        ELSE <<>>)
    \o (IF c.password THEN <<" --hide-text">> ELSE <<>>)

KdialogDialogCommand(c) ==
    <<"kdialog ", IF c.password THEN "--password" ELSE "--inputbox", " \"">>
    \o EscapeDoubleQuotes(c.prompt) \o <<"\" \"">>
    \o EscapeDoubleQuotes(c.defaultValue) \o <<"\" --title \"">>
    \o EscapeDoubleQuotes(IF c.title = <<>> THEN <<"Input Required">> ELSE c.title)
    \o <<"\"">>

TerminalInputCommand(c) ==
    IF c.password
    THEN <<"read -s -p \"">> \o EscapeDoubleQuotes(c.prompt)
         \o <<": \" input && echo \"$input\"">>
    ELSE <<"read -p \"">> \o EscapeDoubleQuotes(c.prompt) \o <<" [">> \o c.defaultValue
         \o <<"]: \" input && echo \"${input:-">> \o c.defaultValue \o <<"}\"">>

MacOSDialogCommand(c) ==
    <<"osascript -e 'tell application \"System Events\" to display dialog \"">>
    \o EscapeAppleScript(c.prompt) \o <<"\" default answer \"">>
    \o (IF c.password THEN <<>> ELSE EscapeAppleScript(c.defaultValue))
    \o <<"\" with title \"">>
    \o EscapeAppleScript(IF c.title = <<>> THEN <<"Input Required">> ELSE c.title)
    \o <<"\"">> \o (IF c.password THEN <<" with hidden answer">> ELSE <<>>)
    \o <<"' -e 'text returned of result'">>

WindowsDialogCommand(c) ==
    <<"powershell -Command \"">>
    \o ReplaceAll(
           IF c.password
           THEN <<"Add-Type ... $secure = Read-Host '">> \o EscapePowerShell(c.prompt)
                \o <<"' -AsSecureString ... Write-Output $plain">>
           ELSE <<"Add-Type ... InputBox('">> \o EscapePowerShell(c.prompt) \o <<"', '">>
                \o EscapePowerShell(IF c.title = <<>> THEN <<"Input Required">> ELSE c.title)
                \o <<"', '">> \o EscapePowerShell(c.defaultValue) \o <<"')">>,
           "\"", <<"\\", "\"">>)
    \o <<"\"">>

ZenityDropdownCommand(c) ==
    <<"zenity --list --radiolist --text=\"">> \o EscapeDoubleQuotes(c.prompt)
    \o <<"\" --title=\"">>
    \o EscapeDoubleQuotes(IF c.title = <<>> THEN <<"Select Option">> ELSE c.title)
    \o <<"\" --column=Select --column=Option">>
    \o Join([k \in 1..Len(c.options) |->
                <<IF c.options[k] = c.defaultValue THEN " TRUE \"" ELSE " FALSE \"">>
                \o EscapeDoubleQuotes(c.options[k]) \o <<"\"">>], <<>>)

KdialogDropdownCommand(c) ==
    <<"kdialog --combobox \"">> \o EscapeDoubleQuotes(c.prompt) \o <<"\"">>
    \o Join([k \in 1..Len(c.options) |->
                <<" \"">> \o EscapeDoubleQuotes(c.options[k]) \o <<"\"">>], <<>>)
    \o <<" --title \"">>
    \o EscapeDoubleQuotes(IF c.title = <<>> THEN <<"Select Option">> ELSE c.title)
    \o <<"\"">>
    \o (IF c.defaultValue # <<>>
        THEN <<" --default \"">> \o EscapeDoubleQuotes(c.defaultValue) \o <<"\"">>
        ELSE <<>>)

MacOSDropdownCommand(c) ==
    <<"osascript -e 'tell application \"System Events\" to choose from list {">>
    \o Join([k \in 1..Len(c.options) |->
                <<"\"">> \o EscapeAppleScript(c.options[k]) \o <<"\"">>], <<",", " ">>)
    \o <<"} with prompt \"">> \o EscapeAppleScript(c.prompt)
    \o <<"\" with title \"">>
    \o EscapeAppleScript(IF c.title = <<>> THEN <<"Select Option">> ELSE c.title)
    \o <<"\" default items {\"">>
    \o EscapeAppleScript(IF c.defaultValue # <<>> THEN c.defaultValue ELSE c.options[1])
    \o <<"\"}' -e 'item 1 of result'">>

WindowsDropdownCommand(c) ==
    <<"powershell -Command \"">>
    \o ReplaceAll(
           <<"Add-Type ... $form.Text = '">>
           \o EscapePowerShell(IF c.title = <<>> THEN <<"Select Option">> ELSE c.title)
           \o <<"' ... $label.Text = '">> \o EscapePowerShell(c.prompt) \o <<"' ... @(">>
           \o Join([k \in 1..Len(c.options) |->
                       <<"'">> \o EscapePowerShell(c.options[k]) \o <<"'">>], <<",">>)
           \o <<") | ForEach-Object ... ">>
           \o (IF c.defaultValue # <<>>
               THEN <<"$comboBox.SelectedItem = '">> \o EscapePowerShell(c.defaultValue)
                    \o <<"'">>
               ELSE <<"$comboBox.SelectedIndex = 0">>)
           \o <<" ... Write-Output $comboBox.SelectedItem">>,
           "\"", <<"\\", "\"">>)
    \o <<"\"">>

-----------------------------------------------------------------------------
(* child_process.exec and the adapters *)

\* The result of one external process: [code, stdout, stderr], and what the
\* user did in it (user: "answer", "cancel" or "none").  exec rejects on a
\* non-zero exit status with this message.
ExecErrorMessage(cmd, r) == <<"Command failed: ">> \o cmd \o <<"\n">> \o r.stderr

Cancelled == <<"c", "a", "n", "c", "e", "l", "l", "e", "d">>

UserCanceled == <<"U", "s", "e", "r", " ", "c", "a", "n", "c", "e", "l", "e", "d">>

Code1 == <<"c", "o", "d", "e", " ", "1">>

Code255 == <<"c", "o", "d", "e", " ", "2", "5", "5">>

\* new Error('User cancelled the input dialog')
CancelledInputDialog == <<"User ">> \o Cancelled \o <<" the input dialog">>

\* new Error('User cancelled the selection dialog')
CancelledSelectionDialog == <<"User ">> \o Cancelled \o <<" the selection dialog">>

\* What an adapter does with the result of its process: return a text or throw.
Return(v) == [ok |-> TRUE, value |-> v]

Throw(m) == [ok |-> FALSE, message |-> m]

showMacOSDialog(c, r) ==
    IF r.code = 0 THEN Return(trim(r.stdout))
    ELSE IF includes(ExecErrorMessage(MacOSDialogCommand(c), r), UserCanceled)
         THEN Throw(CancelledInputDialog)
         ELSE Throw(ExecErrorMessage(MacOSDialogCommand(c), r))

\* The trimmed output returned whatever it is.
showWindowsDialogReturningEmpty(c, r) ==
    IF r.code # 0 THEN Throw(ExecErrorMessage(WindowsDialogCommand(c), r))
    ELSE Return(trim(r.stdout))

showWindowsDialog(c, r) ==
    IF r.code # 0 THEN Throw(ExecErrorMessage(WindowsDialogCommand(c), r))
    ELSE IF trim(r.stdout) = <<>> THEN Throw(CancelledInputDialog)
         ELSE Return(trim(r.stdout))

showZenityDialog(c, r) ==
    IF r.code = 0 THEN Return(trim(r.stdout))
    ELSE IF \/ includes(ExecErrorMessage(ZenityDialogCommand(c), r), Code1)
            \/ includes(ExecErrorMessage(ZenityDialogCommand(c), r), Code255)
         THEN Throw(CancelledInputDialog)
         ELSE Throw(ExecErrorMessage(ZenityDialogCommand(c), r))

showKdialogDialog(c, r) ==
    IF r.code = 0 THEN Return(trim(r.stdout))
    ELSE IF includes(ExecErrorMessage(KdialogDialogCommand(c), r), Code1)
         THEN Throw(CancelledInputDialog)
         ELSE Throw(ExecErrorMessage(KdialogDialogCommand(c), r))

showTerminalInput(c, r) ==
    IF r.code = 0 THEN Return(trim(r.stdout))
    ELSE Throw(<<"Failed to read input from terminal">>)

showMacOSDropdown(c, r) ==
    IF r.code = 0 THEN Return(trim(r.stdout))
    ELSE IF includes(ExecErrorMessage(MacOSDropdownCommand(c), r), UserCanceled)
         THEN Throw(CancelledSelectionDialog)
         ELSE Throw(ExecErrorMessage(MacOSDropdownCommand(c), r))

showWindowsDropdown(c, r) ==
    IF r.code # 0 THEN Throw(ExecErrorMessage(WindowsDropdownCommand(c), r))
    ELSE IF trim(r.stdout) = <<>> THEN Throw(CancelledSelectionDialog)
         ELSE Return(trim(r.stdout))

showZenityDropdown(c, r) ==
    IF r.code = 0 THEN Return(trim(r.stdout))
    ELSE IF \/ includes(ExecErrorMessage(ZenityDropdownCommand(c), r), Code1)
            \/ includes(ExecErrorMessage(ZenityDropdownCommand(c), r), Code255)
         THEN Throw(CancelledSelectionDialog)
         ELSE Throw(ExecErrorMessage(ZenityDropdownCommand(c), r))

showKdialogDropdown(c, r) ==
    IF r.code = 0 THEN Return(trim(r.stdout))
    ELSE IF includes(ExecErrorMessage(KdialogDropdownCommand(c), r), Code1)
         THEN Throw(CancelledSelectionDialog)
         ELSE Throw(ExecErrorMessage(KdialogDropdownCommand(c), r))

\* String.prototype.split('\n')
RECURSIVE SplitLines(_, _)
SplitLines(s, acc) ==
    IF s = <<>> THEN <<acc>>
    ELSE IF s[1] = "\n" THEN <<acc>> \o SplitLines(Tail(s), <<>>)
         ELSE SplitLines(Tail(s), Append(acc, s[1]))

showTerminalDropdown(c, r) ==
    IF r.code = 0
    THEN LET lines == SplitLines(trim(r.stdout), <<>>)
         IN  Return(lines[Len(lines)])
    ELSE Throw(<<"Failed to read selection from terminal">>)

-----------------------------------------------------------------------------
(* What the user and the host can do in one external process *)

Ana == <<"A", "n", "a">>

\* The texts a user types into an entry field: a name, or nothing.
Typed == {Ana, <<>>}

Ok(out) == [code |-> 0, stdout |-> out, stderr |-> <<>>, user |-> "answer"]

Exit(n, err, what) == [code |-> n, stdout |-> <<>>, stderr |-> err, user |-> what]

\* osascript: the text and a line end; "User canceled" (-128) on Cancel; or
\* another failure (no access to System Events).
MacOSResults(picks) ==
    {Ok(v \o <<"\n">>) : v \in picks}
    \cup {Exit(1, <<"execution error: ">> \o UserCanceled \o <<". (-128)">>, "cancel"),
          Exit(1, <<"execution error: Not authorized to send Apple events. (-1743)">>, "none")}

\* powershell: the text and a line end, nothing on Cancel, or a failure to start.
WindowsResults(picks) ==
    {Ok(v \o <<"\r", "\n">>) : v \in picks}
    \cup {[code |-> 0, stdout |-> <<>>, stderr |-> <<>>, user |-> "cancel"],
          Exit(1, <<"powershell failed">>, "none")}

\* zenity: status 0 with the text, 1 on Cancel, 255 on Escape, 5 on a timeout.
ZenityResults(picks) ==
    {Ok(v \o <<"\n">>) : v \in picks}
    \cup {Exit(1, <<>>, "cancel"), Exit(255, <<>>, "cancel"), Exit(5, <<>>, "none")}

\* kdialog: status 0 with the text, 1 on Cancel, 2 on an error.
KdialogResults(picks) ==
    {Ok(v \o <<"\n">>) : v \in picks}
    \cup {Exit(1, <<>>, "cancel"), Exit(2, <<"kdialog: cannot connect to X server">>, "none")}

\* bash running the read script of showTerminalInput on a typed line, or on the
\* end of the input (read fails, the script exits 1).
TerminalInputResults(c) ==
    {Ok((IF c.password \/ v # <<>> THEN v ELSE c.defaultValue) \o <<"\n">>) : v \in Typed}
    \cup {Exit(1, <<>>, "none")}

\* options.indexOf(defaultValue) + 1, or 1 without a default value.
DefaultIndex(c) ==
    IF c.defaultValue = <<>> THEN 1
    ELSE IF \E k \in 1..Len(c.options) : c.options[k] = c.defaultValue
         THEN CHOOSE k \in 1..Len(c.options) :
                  /\ c.options[k] = c.defaultValue
                  /\ \A j \in 1..(k - 1) : c.options[j] # c.defaultValue
         ELSE 0

\* The numbers a user types at the menu of showTerminalDropdown.
Selections == {<<>>, <<"0">>, <<"1">>, <<"2">>, <<"3">>, <<"9">>, <<"x">>}

\* The menu script with a selection that matches no option taken for the last
\* option.
TerminalDropdownRunClamping(c, typed) ==
    LET selection == IF typed = <<>> THEN NumberToString(DefaultIndex(c)) ELSE typed
        hit == {k \in 1..Len(c.options) : NumberToString(k) = selection}
    IN  Ok(c.prompt \o <<"\n">>
           \o c.options[IF hit # {} THEN CHOOSE k \in hit : TRUE ELSE Len(c.options)]
           \o <<"\n">>)

\* bash running the menu script on the typed selection.
TerminalDropdownRun(c, typed) ==
    LET selection == IF typed = <<>> THEN NumberToString(DefaultIndex(c)) ELSE typed
        menu == c.prompt \o <<"\n", "\n">>
                \o Join([k \in 1..Len(c.options) |->
                            NumberToString(k) \o <<")", " ">> \o c.options[k] \o <<"\n">>],
                        <<>>)
                \o <<"\n">>
        hit == {k \in 1..Len(c.options) : NumberToString(k) = selection}
    IN  IF hit # {}
        THEN Ok(menu \o c.options[CHOOSE k \in hit : TRUE] \o <<"\n">>)
        ELSE [code |-> 1, stdout |-> menu, stderr |-> <<"Invalid selection", "\n">>,
              user |-> "answer"]

TerminalDropdownResults(c) == {TerminalDropdownRun(c, t) : t \in Selections}

-----------------------------------------------------------------------------
(* The requests of the model *)

\* The longest chain of questions.
MaxQuestions == 2

WhatIsYourName ==
    <<"W", "h", "a", "t", " ", "i", "s", " ", "y", "o", "u", "r", " ", "n", "a", "m", "e", "?">>

EnterYourName ==
    <<"E", "n", "t", "e", "r", " ", "y", "o", "u", "r", " ", "n", "a", "m", "e", ":">>

WhatIsTwoPlusTwo == <<"W", "h", "a", "t", " ", "i", "s", " ", "2", "+", "2", "?">>

ChooseAColor ==
    <<"C", "h", "o", "o", "s", "e", " ", "a", " ", "c", "o", "l", "o", "r", ":">>

Xyz == <<"x", "y", "z">>

WhyCancelled == <<"W", "h", "y", " ", "c", "a", "n", "c", "e", "l", "l", "e", "d", "?">>

Red == <<"R", "e", "d">>

Blue == <<"B", "l", "u", "e">>

\* The question objects a chain is made of.
QuestionPool ==
    { [prompt |-> WhatIsYourName],
      [prompt |-> EnterYourName, type |-> "password"],
      [prompt |-> WhatIsTwoPlusTwo, password |-> TRUE],
      [prompt |-> <<>>],
      [prompt |-> WhyCancelled],
      [prompt |-> ChooseAColor, type |-> "dropdown"],
      [prompt |-> ChooseAColor, type |-> "dropdown", options |-> <<Red, Blue>>] }

Chains == UNION {[1..n -> QuestionPool] : n \in 1..MaxQuestions}

\* One optional property: absent, or one of the values.
Optional(f, values) == {<<>>} \cup {[k \in {f} |-> v] : v \in values}

\* A single question, with or without an empty questions array.
SingleRequests ==
    {p @@ t @@ w @@ o @@ q :
        p \in Optional("prompt", {<<>>, WhatIsYourName}),
        t \in Optional("type", {"password", "dropdown"}),
        w \in Optional("password", {TRUE}),
        o \in Optional("options", {<<>>, <<Red, Blue>>}),
        q \in Optional("questions", {<<>>})}

\* A chain, with or without a prompt beside it.
ChainRequests ==
    {p @@ q : p \in Optional("prompt", {Xyz}), q \in {[questions |-> c] : c \in Chains}}

Requests == SingleRequests \cup ChainRequests

Platforms == {"darwin", "win32", "linux", "freebsd"}

-----------------------------------------------------------------------------
(* One invocation of execute *)

VARIABLES
    platform,   \* os.platform()
    installed,  \* the dialog tools `which` finds on this host
    args,       \* the arguments of execute
    pc,         \* the await the invocation stands at, "start" or "done"
    path,       \* "single" (execute itself) or "chain" (handleChainedQuestions)
    i,          \* the loop variable of handleChainedQuestions
    answers,    \* the answers object: its own properties <<key, value>>, as inserted
    given,      \* what the adapters returned for the questions 0..i-1
    keys,       \* the keys generateAnswerKey derived for the questions 0..i-1
    attempts,   \* the external processes run for the prompt in hand: the command,
                \* its exit status, what the user did in it, the question and the
                \* prompt it was for, the password flag passed to the adapter, and
                \* whether the adapter returned (and what) or threw (and what)
    logs,       \* the messages given to context.logger, in order
    nSpawned,   \* the number of external processes run so far
    result      \* what execute returned or threw

vars ==
    <<platform, installed, args, pc, path, i, answers, given, keys, attempts, logs, nSpawned,
      result>>

\* The question in hand: the arguments themselves, or questions[i].
Question == IF path = "chain" THEN args.questions[i + 1] ELSE args

\* type || (password ? 'password' : 'text')
InputTypeOr(type, password) ==
    IF type # "" THEN type ELSE IF password THEN "password" ELSE "text"

\* execute, lines 149-150: an undefined type is falsy.
SingleInputType(a) == InputTypeOr(Get(a, "type", ""), Get(a, "password", FALSE))

\* handleChainedQuestions, lines 609-626: the destructuring defaults an undefined
\* type to 'text' and an undefined password to false.
ChainInputType(q) == InputTypeOr(Get(q, "type", "text"), Get(q, "password", FALSE))

InputType == IF path = "chain" THEN ChainInputType(Question) ELSE SingleInputType(Question)

\* inputType === 'dropdown' && options
IsDropdown == InputType = "dropdown" /\ Has(Question, "options")

\* title = `Question ${i + 1} of ${questions.length}` unless the question has one.
ChainTitle(q, j, n) ==
    Get(q, "title", <<"Question ">> \o NumberToString(j + 1) \o <<" of ">> \o NumberToString(n))

\* The arguments the adapter of the question in hand is called with.
Call ==
    [prompt |-> Question.prompt,
     defaultValue |-> Get(Question, "default_value", <<>>),
     title |-> IF path = "chain" THEN ChainTitle(Question, i, Len(args.questions))
               ELSE TextOr(Question, "title",
                           IF IsDropdown THEN <<"Select Option">> ELSE <<"Input Required">>),
     password |-> InputType = "password",
     options |-> Get(Question, "options", <<>>)]

\* The first await of the switch on the platform, or "unsupported".
FirstStep ==
    CASE platform = "darwin" -> "osascript"
      [] platform = "win32" -> "powershell"
      [] platform = "linux" -> "whichZenity"
      [] OTHER -> "unsupported"

Unsupported == [success |-> FALSE, error |-> <<"Unsupported platform: ", platform>>]

\* An assignment that keeps the value a property already has.
SetPropertyOnce(obj, key, value) ==
    IF \E k \in 1..Len(obj) : obj[k][1] = key THEN obj ELSE Append(obj, <<key, value>>)

\* answers[key] = value on an ordinary object.
SetProperty(obj, key, value) ==
    IF \E k \in 1..Len(obj) : obj[k][1] = key
    THEN [k \in 1..Len(obj) |-> IF obj[k][1] = key THEN <<key, value>> ELSE obj[k]]
    ELSE Append(obj, <<key, value>>)

DigitValue(c) == CHOOSE d \in 0..9 : DigitChars[d + 1] = c

\* Whether the canonical number a is below the canonical number b.
NumberBelow(a, b) ==
    \/ Len(a) < Len(b)
    \/ /\ Len(a) = Len(b)
       /\ \E k \in 1..Len(a) :
             /\ DigitValue(a[k]) < DigitValue(b[k])
             /\ \A j \in 1..(k - 1) : a[j] = b[j]

\* 2^32 - 1
MaxArrayLength == <<"4", "2", "9", "4", "9", "6", "7", "2", "9", "5">>

\* Whether a property name is an array index: a canonical number below 2^32 - 1.
IsArrayIndex(key) ==
    /\ key # <<>>
    /\ \A k \in 1..Len(key) : key[k] \in Range(DigitChars)
    /\ (Len(key) = 1 \/ key[1] # "0")
    /\ NumberBelow(key, MaxArrayLength)

\* A sequence of pairs with distinct array indices as keys, in ascending order.
RECURSIVE SortByIndex(_)
SortByIndex(seq) ==
    IF seq = <<>> THEN <<>>
    ELSE LET m == CHOOSE k \in 1..Len(seq) :
                      \A j \in 1..Len(seq) : j = k \/ NumberBelow(seq[k][1], seq[j][1])
         IN  <<seq[m]>> \o SortByIndex([k \in 1..(Len(seq) - 1) |->
                                            IF k < m THEN seq[k] ELSE seq[k + 1]])

\* Object.entries: the array indices in ascending order, then the other names in
\* the order of their insertion.
ObjectEntries(obj) ==
    LET IsIndex(e) == IsArrayIndex(e[1])
        IsName(e) == ~IsArrayIndex(e[1])
    IN  SortByIndex(SelectSeq(obj, IsIndex)) \o SelectSeq(obj, IsName)

\* Object.entries(answers).map(([key, value]) => `${key}: ${value}`).join('\n')
FormattedOutput(obj) ==
    LET e == ObjectEntries(obj)
    IN  Join([k \in 1..Len(e) |-> e[k][1] \o <<":", " ">> \o e[k][2]], <<"\n">>)

-----------------------------------------------------------------------------
(* The code between two awaits *)

Pending == [status |-> "pending"]

\* return value
Returns(value) == [status |-> "returned", value |-> value]

\* throw new Error(message), out of execute
Throws(m) == [status |-> "thrown", message |-> m]

\* The invocation goes on at the await `step` with the loop variable j.
GoOn(step, j, ans, giv) ==
    [pc |-> step, i |-> j, answers |-> ans, given |-> giv, result |-> Pending]

\* The invocation ends with the result res.
Stop(j, ans, giv, res) ==
    [pc |-> "done", i |-> j, answers |-> ans, given |-> giv, result |-> res]

MissingPrompt(j) ==
    [success |-> FALSE,
     error |-> <<"Question ">> \o NumberToString(j + 1)
               \o <<" is missing required \"prompt\" field">>]

MissingOptions(j) ==
    [success |-> FALSE,
     error |-> <<"Question ">> \o NumberToString(j + 1)
               \o <<": Dropdown type requires options array">>]

ChainComplete(ans) ==
    [success |-> TRUE,
     output |-> FormattedOutput(ans),
     data |-> [answers |-> ans, questionCount |-> Len(args.questions)]]

ChainCancelled(j, ans) ==
    [success |-> FALSE,
     error |-> <<"User ">> \o Cancelled \o <<" at question ">> \o NumberToString(j + 1),
     data |-> [answeredQuestions |-> j, partialAnswers |-> ans]]

\* The loop with a missing prompt reported like a cancellation, partial answers
\* included.
LoopFromKeepingAnswers(j, ans, giv) ==
    IF j >= Len(args.questions) THEN Stop(j, ans, giv, Returns(ChainComplete(ans)))
    ELSE IF NoText(args.questions[j + 1], "prompt")
         THEN Stop(j, ans, giv,
                   Returns([success |-> FALSE, error |-> MissingPrompt(j).error,
                            data |-> [answeredQuestions |-> j, partialAnswers |-> ans]]))
    ELSE IF ChainInputType(args.questions[j + 1]) = "dropdown" /\ NoOptions(args.questions[j + 1])
         THEN Stop(j, ans, giv, Returns(MissingOptions(j)))
    ELSE IF FirstStep = "unsupported"
         THEN Stop(j, ans, giv, Returns(Unsupported))
    ELSE GoOn(FirstStep, j, ans, giv)

\* The for loop of handleChainedQuestions from iteration j to its next await or
\* to its return: the validation of question j and the switch on the platform.
LoopFrom(j, ans, giv) ==
    IF j >= Len(args.questions) THEN Stop(j, ans, giv, Returns(ChainComplete(ans)))
    ELSE IF NoText(args.questions[j + 1], "prompt")
         THEN Stop(j, ans, giv, Returns(MissingPrompt(j)))
    ELSE IF ChainInputType(args.questions[j + 1]) = "dropdown" /\ NoOptions(args.questions[j + 1])
         THEN Stop(j, ans, giv, Returns(MissingOptions(j)))
    ELSE IF FirstStep = "unsupported"
         THEN Stop(j, ans, giv, Returns(Unsupported))
    ELSE GoOn(FirstStep, j, ans, giv)

\* The single prompt preferred when both are supplied.
TakesChainWithoutPrompt(a) == Has(a, "questions") /\ Len(a.questions) > 0 /\ NoText(a, "prompt")

\* execute, lines 133-136: the chain is taken when questions is a non-empty array.
TakesChain(a) == Has(a, "questions") /\ Len(a.questions) > 0

PromptRequired ==
    [success |-> FALSE, error |-> <<"Either \"prompt\" or \"questions\" parameter is required">>]

OptionsRequired == [success |-> FALSE, error |-> <<"Dropdown type requires options array">>]

\* execute, lines 138-193, for a single question: validation, then the switch.
SingleFrom(a) ==
    IF NoText(a, "prompt") THEN Stop(0, <<>>, <<>>, Returns(PromptRequired))
    ELSE IF SingleInputType(a) = "dropdown" /\ NoOptions(a)
         THEN Stop(0, <<>>, <<>>, Returns(OptionsRequired))
    ELSE IF FirstStep = "unsupported" THEN Stop(0, <<>>, <<>>, Returns(Unsupported))
    ELSE GoOn(FirstStep, 0, <<>>, <<>>)

\* The adapter returned the text v.
AfterReturn(v) ==
    IF path = "chain"
    THEN LoopFrom(i + 1,
                  SetProperty(answers, generateAnswerKey(Question.prompt, i), v),
                  Append(given, v))
    ELSE Stop(i, answers, given,
              Returns([success |-> TRUE, output |-> v, data |-> [input |-> v]]))

\* const key = generateAnswerKey(prompt, i) (line 672), kept for each question.
KeysAfterReturn ==
    IF path = "chain" THEN Append(keys, generateAnswerKey(Question.prompt, i)) ELSE keys

\* The loop of the chain going on with the next question after an error.
AfterThrowGoingOn(m) ==
    IF path = "chain"
    THEN LoopFrom(i + 1, answers, given)
    ELSE Stop(i, answers, given,
              Returns([success |-> FALSE, error |-> <<"Failed to show input dialog: ">> \o m]))

\* The adapter threw an error with the message m: the catch of execute (lines
\* 209-215) or of handleChainedQuestions (lines 677-686).
AfterThrow(m) ==
    IF path = "chain"
    THEN IF includes(m, Cancelled)
         THEN Stop(i, answers, given, Returns(ChainCancelled(i, answers)))
         ELSE Stop(i, answers, given, Throws(m))
    ELSE Stop(i, answers, given,
              Returns([success |-> FALSE, error |-> <<"Failed to show input dialog: ">> \o m]))

\* kdialog shown whether `which` found it or not.
showLinuxDialogKdialogUnprobed(step, ok) ==
    CASE step = "whichZenity" -> IF ok THEN "zenity" ELSE "whichKdialog"
      [] step = "zenity" -> IF ok THEN "return" ELSE "whichKdialog"
      [] step = "whichKdialog" -> "kdialog"
      [] step = "kdialog" -> IF ok THEN "return" ELSE "terminal"
      [] step = "terminal" -> IF ok THEN "return" ELSE "throw"

\* The terminal taken as soon as zenity is not found, kdialog never tried.
showLinuxDialogSkippingKdialog(step, ok) ==
    CASE step = "whichZenity" -> IF ok THEN "zenity" ELSE "terminal"
      [] step = "zenity" -> IF ok THEN "return" ELSE "whichKdialog"
      [] step = "whichKdialog" -> IF ok THEN "kdialog" ELSE "terminal"
      [] step = "kdialog" -> IF ok THEN "return" ELSE "terminal"
      [] step = "terminal" -> IF ok THEN "return" ELSE "throw"


\* '[HIDDEN]' for a password, else the value (lines 202 and 675).
HiddenOr(v) == IF InputType = "password" THEN <<"[HIDDEN]">> ELSE v

\* The messages logged before the first await: line 605 in a chain, line 147 for
\* a single question that has a prompt.
LogsAtStart(a) ==
    IF TakesChain(a)
    THEN << <<"Processing ">> \o NumberToString(Len(a.questions)) \o <<" chained questions">> >>
    ELSE IF NoText(a, "prompt") THEN <<>>
    ELSE << <<"Showing input dialog on ", platform>> >>

\* The message logged once the adapter returned v (lines 202 and 675).
LogAfterReturn(v) ==
    IF path = "chain"
    THEN <<"Question ">> \o NumberToString(i + 1) \o <<":", " ">> \o HiddenOr(v)
    ELSE <<"User provided input: ">> \o HiddenOr(v)

\* The message logged by the catch of execute (line 210); the catch of
\* handleChainedQuestions logs nothing.
LogsAfterThrow(m) ==
    IF path = "chain" THEN <<>> ELSE << <<"Failed to show input dialog: ">> \o m >>

\* The terminal read started over from the zenity probe when it fails.
showLinuxDialogRetrying(step, ok) ==
    CASE step = "whichZenity" -> IF ok THEN "zenity" ELSE "whichKdialog"
      [] step = "zenity" -> IF ok THEN "return" ELSE "whichKdialog"
      [] step = "whichKdialog" -> IF ok THEN "kdialog" ELSE "terminal"
      [] step = "kdialog" -> IF ok THEN "return" ELSE "terminal"
      [] step = "terminal" -> IF ok THEN "return" ELSE "whichZenity"

\* The nested try/catch of showLinuxDialog: where the function goes after the
\* await `step` succeeded or failed ("return" and "throw" leave the function).
showLinuxDialog(step, ok) ==
    CASE step = "whichZenity" -> IF ok THEN "zenity" ELSE "whichKdialog"
      [] step = "zenity" -> IF ok THEN "return" ELSE "whichKdialog"
      [] step = "whichKdialog" -> IF ok THEN "kdialog" ELSE "terminal"
      [] step = "kdialog" -> IF ok THEN "return" ELSE "terminal"
      [] step = "terminal" -> IF ok THEN "return" ELSE "throw"

\* The nested try/catch of showLinuxDropdown.
showLinuxDropdown(step, ok) ==
    CASE step = "whichZenity" -> IF ok THEN "zenity" ELSE "whichKdialog"
      [] step = "zenity" -> IF ok THEN "return" ELSE "whichKdialog"
      [] step = "whichKdialog" -> IF ok THEN "kdialog" ELSE "terminal"
      [] step = "kdialog" -> IF ok THEN "return" ELSE "terminal"
      [] step = "terminal" -> IF ok THEN "return" ELSE "throw"

\* The terminal read taken when the adapter of macOS or Windows throws.
DirectFallingBack(ok) == IF ok THEN "return" ELSE "terminal"

\* On macOS and Windows the adapter is awaited directly in the try of the caller.
Direct(ok) == IF ok THEN "return" ELSE "throw"

-----------------------------------------------------------------------------
(* Actions: one per await *)

Init ==
    /\ platform \in Platforms
    /\ installed \in SUBSET {"zenity", "kdialog"}
    /\ (platform # "linux" => installed = {})
    /\ args \in Requests
    /\ pc = "start"
    /\ path = "none"
    /\ i = 0
    /\ answers = <<>>
    /\ given = <<>>
    /\ keys = <<>>
    /\ attempts = <<>>
    /\ logs = <<>>
    /\ nSpawned = 0
    /\ result = Pending

\* The new values of the variables the code between two awaits writes.
Becomes(n, att) ==
    /\ pc' = n.pc
    /\ i' = n.i
    /\ answers' = n.answers
    /\ given' = n.given
    /\ result' = n.result
    /\ attempts' = IF n.pc # "done" /\ n.i # i THEN <<>> ELSE att

\* execute up to its first await.
Execute ==
    /\ pc = "start"
    /\ path' = IF TakesChain(args) THEN "chain" ELSE "single"
    /\ Becomes(IF TakesChain(args) THEN LoopFrom(0, <<>>, <<>>) ELSE SingleFrom(args), <<>>)
    /\ logs' = LogsAtStart(args)
    /\ UNCHANGED <<platform, installed, args, keys, nSpawned>>

\* One external process `cmd` ended with r, the adapter made o of it, and the
\* caller goes to `to`.
Awaited(cmd, r, o, to) ==
    /\ nSpawned' = nSpawned + 1
    /\ LET att == Append(attempts, [cmd |-> cmd, code |-> r.code, user |-> r.user,
                                    question |-> i, prompt |-> Call.prompt,
                                    password |-> Call.password, ok |-> o.ok,
                                    value |-> IF o.ok THEN o.value ELSE <<>>,
                                    message |-> IF o.ok THEN <<>> ELSE o.message])
       IN  CASE to = "return" ->
                   /\ Becomes(AfterReturn(o.value), att)
                   /\ logs' = Append(logs, LogAfterReturn(o.value))
                   /\ keys' = KeysAfterReturn
             [] to = "throw" ->
                   /\ Becomes(AfterThrow(o.message), att)
                   /\ logs' = logs \o LogsAfterThrow(o.message)
                   /\ keys' = keys
             [] OTHER ->
                   Becomes(GoOn(to, i, answers, given), att) /\ logs' = logs /\ keys' = keys
    /\ UNCHANGED <<platform, installed, args, path>>

\* What the user can pick: a typed text, or one of the options.
Picks == IF IsDropdown THEN Range(Call.options) ELSE Typed

LinuxNext(step, ok) ==
    IF IsDropdown THEN showLinuxDropdown(step, ok) ELSE showLinuxDialog(step, ok)

\* await execAsync('which zenity')
WhichZenity ==
    /\ pc = "whichZenity"
    /\ LET found == "zenity" \in installed
           r == [code |-> IF found THEN 0 ELSE 1, user |-> "none"]
       IN  Awaited("which zenity", r, Return(<<>>), LinuxNext("whichZenity", found))

\* await execAsync('which kdialog')
WhichKdialog ==
    /\ pc = "whichKdialog"
    /\ LET found == "kdialog" \in installed
           r == [code |-> IF found THEN 0 ELSE 1, user |-> "none"]
       IN  Awaited("which kdialog", r, Return(<<>>), LinuxNext("whichKdialog", found))

ZenityDialog ==
    /\ pc = "zenity" /\ ~IsDropdown
    /\ \E r \in ZenityResults(Picks) :
          LET o == showZenityDialog(Call, r)
          IN  Awaited("zenity", r, o, showLinuxDialog("zenity", o.ok))

ZenityDropdown ==
    /\ pc = "zenity" /\ IsDropdown
    /\ \E r \in ZenityResults(Picks) :
          LET o == showZenityDropdown(Call, r)
          IN  Awaited("zenity", r, o, showLinuxDropdown("zenity", o.ok))

KdialogDialog ==
    /\ pc = "kdialog" /\ ~IsDropdown
    /\ \E r \in KdialogResults(Picks) :
          LET o == showKdialogDialog(Call, r)
          IN  Awaited("kdialog", r, o, showLinuxDialog("kdialog", o.ok))

KdialogDropdown ==
    /\ pc = "kdialog" /\ IsDropdown
    /\ \E r \in KdialogResults(Picks) :
          LET o == showKdialogDropdown(Call, r)
          IN  Awaited("kdialog", r, o, showLinuxDropdown("kdialog", o.ok))

TerminalInput ==
    /\ pc = "terminal" /\ ~IsDropdown
    /\ \E r \in TerminalInputResults(Call) :
          LET o == showTerminalInput(Call, r)
          IN  Awaited("bash", r, o, showLinuxDialog("terminal", o.ok))

TerminalDropdown ==
    /\ pc = "terminal" /\ IsDropdown
    /\ \E r \in TerminalDropdownResults(Call) :
          LET o == showTerminalDropdown(Call, r)
          IN  Awaited("bash", r, o, showLinuxDropdown("terminal", o.ok))

MacOSDialog ==
    /\ pc = "osascript" /\ ~IsDropdown
    /\ \E r \in MacOSResults(Picks) :
          LET o == showMacOSDialog(Call, r)
          IN  Awaited("osascript", r, o, Direct(o.ok))

MacOSDropdown ==
    /\ pc = "osascript" /\ IsDropdown
    /\ \E r \in MacOSResults(Picks) :
          LET o == showMacOSDropdown(Call, r)
          IN  Awaited("osascript", r, o, Direct(o.ok))

WindowsDialog ==
    /\ pc = "powershell" /\ ~IsDropdown
    /\ \E r \in WindowsResults(Picks) :
          LET o == showWindowsDialog(Call, r)
          IN  Awaited("powershell", r, o, Direct(o.ok))

WindowsDropdown ==
    /\ pc = "powershell" /\ IsDropdown
    /\ \E r \in WindowsResults(Picks) :
          LET o == showWindowsDropdown(Call, r)
          IN  Awaited("powershell", r, o, Direct(o.ok))

Next ==
    \/ Execute
    \/ WhichZenity
    \/ WhichKdialog
    \/ ZenityDialog
    \/ ZenityDropdown
    \/ KdialogDialog
    \/ KdialogDropdown
    \/ TerminalInput
    \/ TerminalDropdown
    \/ MacOSDialog
    \/ MacOSDropdown
    \/ WindowsDialog
    \/ WindowsDropdown

Spec == Init /\ [][Next]_vars

-----------------------------------------------------------------------------
(* The functions on their own: the state holds the input (args.prompt, i) and,
   once the function was applied, its value (result) *)

\* The longest prompt, in pieces.
MaxPieces == 3

\* The pieces the prompts given to generateAnswerKey are made of.
KeyPieces ==
    << <<"W", "h", "a", "t", " ", "i", "s", " ">>,
       <<"E", "n", "t", "e", "r", " ">>,
       <<"C", "h", "o", "o", "s", "e", " ">>,
       <<"S", "e", "l", "e", "c", "t", " ">>,
       <<"P", "r", "o", "v", "i", "d", "e", " ">>,
       <<"y", "o", "u", "r", " ">>,
       <<"t", "h", "e", " ">>,
       <<"N", "a", "m", "e">>,
       <<"e", "m", "a", "i", "l">>,
       <<":">>,
       <<"?">>,
       <<"x", "y", "z">>,
       <<"P", "l", "e", "a", "s", "e", " ">> >>

RECURSIVE Concat(_)
Concat(parts) == IF parts = <<>> THEN <<>> ELSE Head(parts) \o Concat(Tail(parts))

EnterYourEmail == <<"E", "n", "t", "e", "r", " ", "y", "o", "u", "r", " ", "e", "m", "a", "i", "l", ":">>

\* The prompts given to generateAnswerKey: the pieces put together, and three
\* prompts of the documentation.
KeyPrompts ==
    UNION {{Concat([k \in 1..n |-> KeyPieces[f[k]]]) : f \in [1..n -> DOMAIN KeyPieces]} :
              n \in 0..MaxPieces}
    \cup {WhatIsYourName, EnterYourEmail, Xyz}

\* The position indices given to generateAnswerKey.
KeyIndices == {0, 7}

KeyInit ==
    /\ path = "generateAnswerKey"
    /\ args \in {[prompt |-> t] : t \in KeyPrompts}
    /\ i \in KeyIndices

\* The longest text given to the escaping.
MaxText == 3

\* The characters of the texts given to the escaping.
EscapeAlphabet == <<"\"", "'", "\\", "$", "\n", "a">>

EscapeTexts ==
    UNION {{[k \in 1..n |-> EscapeAlphabet[f[k]]] : f \in [1..n -> DOMAIN EscapeAlphabet]} :
              n \in 0..MaxText}

EscapeInit ==
    /\ path = "escape"
    /\ args \in {[prompt |-> t] : t \in EscapeTexts}
    /\ i = 0

\* The texts given to the escaping of the AppleScript adapters.
AppleScriptInit ==
    /\ path = "escapeAppleScript"
    /\ args \in {[prompt |-> t] : t \in EscapeTexts}
    /\ i = 0

\* The texts given to the escaping of the PowerShell adapters.
PowerShellInit ==
    /\ path = "escapePowerShell"
    /\ args \in {[prompt |-> t] : t \in EscapeTexts}
    /\ i = 0

\* The longest list of options given to showTerminalDropdown.
MaxOptions == 2

OptionLists == UNION {[1..n -> {Red, Blue}] : n \in 1..MaxOptions}

\* The prompt, the options and the default value given to showTerminalDropdown.
TerminalDropdownInit ==
    /\ path = "terminalDropdown"
    /\ args \in {[prompt |-> ChooseAColor, options |-> o] @@ d :
                    o \in OptionLists, d \in Optional("default_value", {Red, Blue})}
    /\ i = 0

FunctionsInit ==
    /\ (KeyInit \/ EscapeInit \/ AppleScriptInit \/ PowerShellInit \/ TerminalDropdownInit)
    /\ platform = "linux" /\ installed = {}
    /\ pc = "start"
    /\ answers = <<>> /\ given = <<>> /\ keys = <<>> /\ attempts = <<>> /\ logs = <<>>
    /\ nSpawned = 0
    /\ result = Pending

\* const key = generateAnswerKey(prompt, i)
CallGenerateAnswerKey ==
    /\ pc = "start" /\ path = "generateAnswerKey"
    /\ pc' = "done"
    /\ result' = Returns(generateAnswerKey(args.prompt, i))
    /\ UNCHANGED <<platform, installed, args, path, i, answers, given, keys, attempts, logs,
                   nSpawned>>

\* `"${prompt.replace(/"/g, '\\"')}"`: the escaped prompt between double quotes,
\* as the zenity, kdialog and terminal adapters put it in their command lines.
QuotePrompt ==
    /\ pc = "start" /\ path = "escape"
    /\ pc' = "done"
    /\ result' = Returns(<<"\"">> \o EscapeDoubleQuotes(args.prompt) \o <<"\"">>)
    /\ UNCHANGED <<platform, installed, args, path, i, answers, given, keys, attempts, logs,
                   nSpawned>>

\* osascript -e '... display dialog "${escapedPrompt}" ...': the escaped prompt as
\* a string literal of the script, the script between single quotes (the
\* words of the script around the literal are left out).
QuoteAppleScript ==
    /\ pc = "start" /\ path = "escapeAppleScript"
    /\ pc' = "done"
    /\ result' = Returns(<<"'", "\"">> \o EscapeAppleScript(args.prompt) \o <<"\"", "'">>)
    /\ UNCHANGED <<platform, installed, args, path, i, answers, given, keys, attempts, logs,
                   nSpawned>>

\* powershell -Command "${script.replace(/"/g, '\\"')}" with '${escapedPrompt}' in
\* the script: the escaped prompt as a single-quoted literal of the script,
\* after the replacement made on the whole script.
QuotePowerShell ==
    /\ pc = "start" /\ path = "escapePowerShell"
    /\ pc' = "done"
    /\ result' = Returns(ReplaceAll(<<"'">> \o EscapePowerShell(args.prompt) \o <<"'">>,
                                    "\"", <<"\\", "\"">>))
    /\ UNCHANGED <<platform, installed, args, path, i, answers, given, keys, attempts, logs,
                   nSpawned>>

\* showTerminalDropdown(prompt, options, defaultValue) with the user typing one
\* of the selections at the menu.
CallTerminalDropdown ==
    /\ pc = "start" /\ path = "terminalDropdown"
    /\ pc' = "done"
    /\ \E typed \in Selections :
          LET c == [prompt |-> args.prompt,
                    defaultValue |-> Get(args, "default_value", <<>>),
                    title |-> <<>>, password |-> FALSE, options |-> args.options]
              r == TerminalDropdownRun(c, typed)
              o == showTerminalDropdown(c, r)
          IN  /\ result' = IF o.ok THEN Returns(o.value) ELSE Throws(o.message)
              /\ attempts' = <<[cmd |-> "bash", code |-> r.code, typed |-> typed]>>
    /\ UNCHANGED <<platform, installed, args, path, i, answers, given, keys, logs, nSpawned>>

FunctionsNext ==
    \/ CallGenerateAnswerKey
    \/ QuotePrompt
    \/ QuoteAppleScript
    \/ QuotePowerShell
    \/ CallTerminalDropdown

Functions == FunctionsInit /\ [][FunctionsNext]_vars

-----------------------------------------------------------------------------
(* Properties of an invocation *)

Done == pc = "done"

\* execute returned the value v.
Returned == Done /\ result.status = "returned"

\* The questions array, or the empty array.
Questions == IF Has(args, "questions") THEN args.questions ELSE <<>>

\* The key that question m of the chain derived.
KeyAt(m) == keys[m + 1]

\* The last of the questions 0..n-1 that derives the key k.
LastWith(k, n) == Max({m \in 0..(n - 1) : KeyAt(m) = k})

\* The entries the answered questions 0..n-1 produce: each derived key with the
\* answer of the last question that derives it.
ExpectedAnswers(n) == {<<KeyAt(m), given[LastWith(KeyAt(m), n) + 1]>> : m \in 0..(n - 1)}

\* The last external process of the prompt in hand.
LastAttempt == attempts[Len(attempts)]

\* The user cancelled the dialog that was shown last.
UserCancelledLast == attempts # <<>> /\ LastAttempt.user = "cancel"

\* C1: in a chain, once the questions 0..i-1 are answered and the user cancels the
\* dialog of question i, the invocation has returned success=false with
\* data.answeredQuestions = i and data.partialAnswers holding exactly the entries
\* of the questions 0..i-1.
C1_CancelReturnsPartialAnswers ==
    (path = "chain" /\ UserCancelledLast) =>
        /\ Returned
        /\ result.value.success = FALSE
        /\ Has(result.value, "data")
        /\ result.value.data.answeredQuestions = i
        /\ Range(result.value.data.partialAnswers) = ExpectedAnswers(i)

\* The keys of the questions of the chain are pairwise distinct.
DistinctKeys == \A a, b \in 0..(Len(Questions) - 1) : KeyAt(a) = KeyAt(b) => a = b

\* The lines "key: value" of the questions, in the order they were asked.
LinesInQuestionOrder ==
    Join([k \in 1..Len(Questions) |-> KeyAt(k - 1) \o <<":", " ">> \o given[k]], <<"\n">>)

\* C2: a chain that completes with pairwise distinct derived keys returns one
\* entry per question, and its output is the lines "key: value" joined by a
\* line end in the order of the questions.
C2_OutputInQuestionOrder ==
    (Returned /\ path = "chain" /\ result.value.success /\ DistinctKeys) =>
        /\ Len(result.value.data.answers) = Len(Questions)
        /\ result.value.output = LinesInQuestionOrder

\* C3: the answers object holds one entry for each key the answered questions
\* derive, and its value is the answer of the last question that derives the key
\* (last write wins); a completed chain returns that object.
C3_LastWriteWins ==
    path = "chain" =>
        /\ Range(answers) = ExpectedAnswers(Len(given))
        /\ \A a, b \in 1..Len(answers) : answers[a][1] = answers[b][1] => a = b
        /\ (Returned /\ result.value.success => result.value.data.answers = answers)

\* Two answered questions derived the same key and got different answers, and the
\* chain completed.
C3_Witness ==
    /\ Returned /\ path = "chain" /\ result.value.success
    /\ \E a, b \in 0..(Len(given) - 1) :
          a < b /\ KeyAt(a) = KeyAt(b) /\ given[a + 1] # given[b + 1]

\* Neither a prompt nor a non-empty questions array is supplied.
NothingToAsk ==
    /\ (~Has(args, "prompt") \/ args.prompt = <<>>)
    /\ (~Has(args, "questions") \/ args.questions = <<>>)

\* C4: a request with neither a prompt nor a non-empty questions array returns
\* success=false with the error that names both parameters, and no external
\* process has been spawned.
C4_NothingToAskFails ==
    (NothingToAsk /\ pc # "start") =>
        /\ Returned
        /\ result.value.success = FALSE
        /\ result.value.error = <<"Either \"prompt\" or \"questions\" parameter is required">>
        /\ nSpawned = 0

\* An empty prompt beside an empty questions array has been refused.
C4_Witness == Done /\ Has(args, "prompt") /\ args.prompt = <<>> /\ Has(args, "questions")

\* Both a prompt and a non-empty questions array are supplied.
BothSupplied ==
    /\ Has(args, "prompt") /\ args.prompt # <<>>
    /\ Has(args, "questions") /\ args.questions # <<>>

\* C5: with both a prompt and a non-empty questions array the chain is taken:
\* every process is run for the question in hand, none for the single prompt,
\* and the result is that of a chain.
C5_QuestionsPreferred ==
    (BothSupplied /\ pc # "start") =>
        /\ path = "chain"
        /\ \A k \in 1..Len(attempts) :
              /\ \E m \in 1..Len(args.questions) :
                    attempts[k].prompt = args.questions[m].prompt
              /\ ~Done => attempts[k].prompt = args.questions[i + 1].prompt
              /\ attempts[k].prompt # args.prompt
        /\ (Returned /\ result.value.success => Has(result.value.data, "answers"))

\* A chain supplied beside a prompt completed after a dialog was shown.
C5_Witness == BothSupplied /\ Returned /\ result.value.success /\ nSpawned > 0

\* A single prompt of kind dropdown without options.
DropdownWithoutOptions ==
    /\ (~Has(args, "questions") \/ args.questions = <<>>)
    /\ Has(args, "prompt") /\ args.prompt # <<>>
    /\ Has(args, "type") /\ args.type = "dropdown"
    /\ (~Has(args, "options") \/ args.options = <<>>)

\* C6: a single dropdown prompt whose options are absent or empty returns the
\* validation error, on every platform, and no external process has been spawned.
C6_DropdownNeedsOptions ==
    (DropdownWithoutOptions /\ pc # "start") =>
        /\ Returned
        /\ result.value.success = FALSE
        /\ result.value.error = <<"Dropdown type requires options array">>
        /\ nSpawned = 0

\* A dropdown with an empty options array has been refused on Linux.
C6_Witness ==
    Done /\ DropdownWithoutOptions /\ Has(args, "options") /\ platform = "linux"

\* The result is one of the validation errors.
ValidationError ==
    /\ Returned
    /\ result.value.success = FALSE
    /\ \/ result.value.error = <<"Either \"prompt\" or \"questions\" parameter is required">>
       \/ result.value.error = <<"Dropdown type requires options array">>
       \/ \E j \in 0..Len(Questions) :
             \/ result.value.error = MissingPrompt(j).error
             \/ result.value.error = MissingOptions(j).error

\* C7: an invocation that ends in a validation error, in the single path or at
\* any position of a chain, has spawned no external process.
C7_ValidationSpawnsNothing == ValidationError => nSpawned = 0

\* The chain stands at a question whose prompt is empty or missing.
AtQuestionWithoutPrompt ==
    /\ path = "chain"
    /\ i < Len(Questions)
    /\ (~Has(Questions[i + 1], "prompt") \/ Questions[i + 1].prompt = <<>>)

\* C8: a chain that comes to a question without a prompt returns a failure that
\* carries no answers (no data at all), with an error that is not the one of a
\* cancellation at any question.
C8_MissingPromptAbortsChain ==
    AtQuestionWithoutPrompt =>
        /\ Returned
        /\ result.value.success = FALSE
        /\ ~Has(result.value, "data")
        /\ result.value.error =
               <<"Question ">> \o NumberToString(i + 1)
               \o <<" is missing required \"prompt\" field">>
        /\ \A j \in 0..Len(Questions) : result.value.error # ChainCancelled(j, <<>>).error
        /\ ~includes(result.value.error, Cancelled)

\* A question without a prompt was reached after an answer had been collected.
C8_Witness == AtQuestionWithoutPrompt /\ answers # <<>>

\* The user cancelled the zenity or kdialog dialog shown last.
LinuxDialogCancelled ==
    /\ platform = "linux"
    /\ UserCancelledLast
    /\ \/ LastAttempt.cmd = "zenity" /\ LastAttempt.code \in {1, 255}
       \/ LastAttempt.cmd = "kdialog" /\ LastAttempt.code = 1

\* C9: on Linux, once the user has cancelled a zenity or kdialog dialog the
\* prompt is Cancelled: the single path has returned a cancellation, a chain has
\* stopped at that question with the partial answers.
C9_LinuxCancelIsCancelled ==
    LinuxDialogCancelled =>
        /\ Returned
        /\ result.value.success = FALSE
        /\ includes(result.value.error, Cancelled)
        /\ (path = "chain" => result.value = ChainCancelled(i, answers))

\* Whether an attempt before the k-th one is the command cmd ended with a non-zero
\* status.
FailedBefore(k, cmd) ==
    \E j \in 1..(k - 1) : attempts[j].cmd = cmd /\ attempts[j].code # 0

TextRequestWithoutDialogTools ==
    /\ platform = "linux" /\ installed = {}
    /\ path = "single"
    /\ (~Has(args, "type") \/ args.type # "dropdown")

\* C11: on Linux with neither zenity nor kdialog, a text request runs no
\* graphical dialog (only the two probes and the terminal read), and the answer
\* it returns is the text the terminal adapter returned.
C11_TerminalOnly ==
    TextRequestWithoutDialogTools =>
        /\ \A k \in 1..Len(attempts) :
              attempts[k].cmd \in {"which zenity", "which kdialog", "bash"}
        /\ (Returned /\ result.value.success) =>
              /\ attempts # <<>>
              /\ LastAttempt.cmd = "bash" /\ LastAttempt.ok
              /\ result.value.output = LastAttempt.value
              /\ result.value.data.input = LastAttempt.value

\* A text request without dialog tools was answered with a typed name.
C11_Witness ==
    /\ TextRequestWithoutDialogTools
    /\ Returned /\ result.value.success
    /\ result.value.output = Ana

\* generateAnswerKey was applied to args.prompt and i.
KeyDerived == path = "generateAnswerKey" /\ pc = "done"

\* What each pattern finds in the prompt, in the order of the patterns.
Captures(prompt) == [k \in 1..Len(Patterns) |-> MatchCapture(prompt, Patterns[k])]

\* The phrases and the marks of the patterns, in their order.
PatternsInOrder ==
    /\ Len(Patterns) = 7
    /\ Patterns[1].lit = <<"w", "h", "a", "t", " ", "i", "s", " ">>
    /\ Patterns[2].lit = <<"e", "n", "t", "e", "r", " ">>
    /\ Patterns[3].lit = <<"c", "h", "o", "o", "s", "e", " ">>
    /\ Patterns[4].lit = <<"s", "e", "l", "e", "c", "t", " ">>
    /\ Patterns[5].lit = <<"p", "r", "o", "v", "i", "d", "e", " ">>
    /\ Patterns[6].suffix = ":"
    /\ Patterns[7].suffix = "?"

\* The key is the lower-cased capture of the first pattern that has one.
FirstMatchSupplies(caps, key) ==
    \A k \in DOMAIN caps :
        (caps[k] # <<>> /\ \A j \in 1..(k - 1) : caps[j] = <<>>) => key = toLowerCase(caps[k])

\* C12: generateAnswerKey tries the patterns in the order what is, enter, choose,
\* select, provide, word before a colon, word before a question mark, and
\* returns the lower-cased capture of the first that matches, whatever the later
\* ones find; "What is your name?" gives "name", "Enter your email:" gives "email".
C12_FirstPatternSuppliesKey ==
    KeyDerived =>
        /\ PatternsInOrder
        /\ FirstMatchSupplies(Captures(args.prompt), result.value)
        /\ (args.prompt = WhatIsYourName => result.value = <<"n", "a", "m", "e">>)
        /\ (args.prompt = EnterYourEmail => result.value = <<"e", "m", "a", "i", "l">>)

\* Two patterns found different words and the earlier one supplied the key.
TwoPatternsDiffer(caps, key) ==
    \E j, k \in DOMAIN caps :
        /\ j < k
        /\ caps[j] # <<>> /\ caps[k] # <<>> /\ caps[j] # caps[k]
        /\ \A h \in 1..(j - 1) : caps[h] = <<>>
        /\ key = toLowerCase(caps[j]) /\ key # caps[j]

C12_Witness == KeyDerived /\ TwoPatternsDiffer(Captures(args.prompt), result.value)

\* The stop words of the fallback.
FallbackStopWords ==
    { <<"w", "h", "a", "t">>, <<"e", "n", "t", "e", "r">>, <<"y", "o", "u", "r">>,
      <<"t", "h", "e">>, <<"p", "l", "e", "a", "s", "e">>,
      <<"c", "h", "o", "o", "s", "e">>, <<"s", "e", "l", "e", "c", "t">> }

\* The positions of the words longer than 3 characters that are no stop words.
SignificantAt(words) ==
    {k \in 1..Len(words) : Len(words[k]) > 3 /\ words[k] \notin FallbackStopWords}

\* The key is the first significant word, or "answer" and the index plus one.
FallbackSupplies(words, sig, key) ==
    IF sig # {} THEN key = words[Min(sig)]
    ELSE key = <<"a", "n", "s", "w", "e", "r">> \o NumberToString(i + 1)

NoPatternMatches(caps) == \A k \in DOMAIN caps : caps[k] = <<>>

\* The words of the lower-cased prompt.
LowerWords(prompt) == SplitWords(toLowerCase(prompt), <<>>)

\* C13: when no pattern matches, generateAnswerKey returns the first
\* whitespace-separated word of the lower-cased prompt that is longer than 3
\* characters and no stop word, and "answer" followed by the index plus one when
\* there is none; "xyz" at index 7 gives "answer8".
C13_FallbackKey ==
    (KeyDerived /\ NoPatternMatches(Captures(args.prompt))) =>
        /\ FallbackSupplies(LowerWords(args.prompt), SignificantAt(LowerWords(args.prompt)),
                            result.value)
        /\ (args.prompt = Xyz /\ i = 7 =>
               result.value = <<"a", "n", "s", "w", "e", "r", "8">>)

\* A word after a stop word supplied the key.
SkippedStopWord(words, sig, key) ==
    /\ sig # {} /\ Min(sig) > 1
    /\ words[1] \in FallbackStopWords
    /\ key = words[Min(sig)]

C13_Witness ==
    /\ KeyDerived /\ NoPatternMatches(Captures(args.prompt))
    /\ SkippedStopWord(LowerWords(args.prompt), SignificantAt(LowerWords(args.prompt)),
                       result.value)

\* The question asks for a password: by its type or by its flag.
CarriesPassword(q) ==
    \/ Has(q, "type") /\ q.type = "password"
    \/ Has(q, "password") /\ q.password = TRUE

\* The message logged for question m of a chain (after the one of line 605).
LogOfQuestion(m) == logs[m + 2]

\* C14: no log message of a prompt that carries a password (type 'password' or
\* password=true) contains what the user typed; it shows '[HIDDEN]' instead. In
\* the single path this is every message of the invocation, in a chain the
\* message of that question.
C14_NoPasswordInLogs ==
    /\ (path = "single" /\ Returned /\ result.value.success /\ CarriesPassword(args)) =>
          /\ \A l \in 1..Len(logs) :
                result.value.output # <<>> => ~includes(logs[l], result.value.output)
          /\ \E l \in 1..Len(logs) : includes(logs[l], <<"[HIDDEN]">>)
    /\ path = "chain" =>
          \A m \in 0..(Len(given) - 1) :
              CarriesPassword(Questions[m + 1]) =>
                  /\ given[m + 1] # <<>> => ~includes(LogOfQuestion(m), given[m + 1])
                  /\ includes(LogOfQuestion(m), <<"[HIDDEN]">>)

\* The question an attempt was made for.
QuestionOf(attempt) == IF path = "chain" THEN Questions[attempt.question + 1] ELSE args

\* The attempt showed a dialog (it was no probe).
ShowedDialog(attempt) == attempt.cmd \notin {"which zenity", "which kdialog"}

\* C15: a question with password=true and no type of its own is shown in
\* password mode, as a single prompt and as an item of a chain.
C15_PasswordFlagMasks ==
    \A k \in 1..Len(attempts) :
        ( /\ ShowedDialog(attempts[k])
          /\ Has(QuestionOf(attempts[k]), "password")
          /\ QuestionOf(attempts[k]).password = TRUE
          /\ ~Has(QuestionOf(attempts[k]), "type") ) => attempts[k].password = TRUE

\* C16: in the result of a completed chain the value of a question of type
\* password, in the answers object and in the output, is '[HIDDEN]'.
C16_PasswordHiddenInResult ==
    (Returned /\ path = "chain" /\ result.value.success) =>
        \A m \in 0..(Len(given) - 1) :
            ( /\ Has(Questions[m + 1], "type") /\ Questions[m + 1].type = "password"
              /\ m = LastWith(KeyAt(m), Len(given)) ) =>
                /\ \A k \in 1..Len(result.value.data.answers) :
                      result.value.data.answers[k][1] = KeyAt(m) =>
                          result.value.data.answers[k][2] = <<"[HIDDEN]">>
                /\ includes(result.value.output, KeyAt(m) \o <<":", " ", "[HIDDEN]">>)

\* C17: in the single path, once the user has cancelled the input dialog the
\* result is success=false with the error 'User cancelled the input dialog', not
\* the 'Failed to show input dialog: ...' of a failure.
C17_SingleCancelMessage ==
    (path = "single" /\ Done /\ UserCancelledLast /\ ~IsDropdown) =>
        /\ Returned
        /\ result.value.success = FALSE
        /\ result.value.error = CancelledInputDialog
        /\ ~includes(result.value.error, <<"Failed to show input dialog: ">>)

\* The invocation ended on an adapter error that is no cancellation by the user.
EndedOnFailure ==
    Done /\ attempts # <<>> /\ ~LastAttempt.ok /\ LastAttempt.user # "cancel"

\* C18: an adapter failure that is no cancellation, in the single path and at any
\* question of a chain, makes execute return success=false with an error that
\* carries the message of the failure; execute never throws.
C18_FailureIsReturned ==
    /\ Done => result.status # "thrown"
    /\ EndedOnFailure =>
          /\ Returned
          /\ result.value.success = FALSE
          /\ includes(result.value.error, LastAttempt.message)

\* C19: a chain that stops at question i on an adapter failure that is no
\* cancellation still gives the caller the answers of the questions 0..i-1.
C19_FailureKeepsPartialAnswers ==
    (path = "chain" /\ EndedOnFailure /\ i >= 1) =>
        /\ Returned
        /\ Has(result.value, "data")
        /\ Has(result.value.data, "partialAnswers")
        /\ Range(result.value.data.partialAnswers) = ExpectedAnswers(i)

\* The characters of the alphabet that a backslash escapes between double quotes
\* in the shell.
EscapedInDoubleQuotes == {"\"", "\\", "$"}

\* Whether a dollar sign at position k of s starts an expansion: a parameter, a
\* special parameter, or a substitution.
StartsExpansion(s, k) ==
    /\ k < Len(s)
    /\ \/ IsWordChar(s[k + 1])
       \/ s[k + 1] \in {"$", "{", "(", "?", "!", "#", "*", "@", "-"}

\* The shell reading s from position k on, inside double quotes, with acc read
\* so far: the argument when the closing quote is the last character of s;
\* "open" when the quote never closes, "more" when text follows the closing
\* quote, "expansion" when the shell substitutes something.
RECURSIVE ReadDoubleQuoted(_, _, _)
ReadDoubleQuoted(s, k, acc) ==
    IF k > Len(s) THEN [read |-> "open"]
    ELSE IF s[k] = "\""
         THEN IF k = Len(s) THEN [read |-> "argument", text |-> acc] ELSE [read |-> "more"]
    ELSE IF s[k] = "\\"
         THEN IF k = Len(s) THEN [read |-> "open"]
              ELSE IF s[k + 1] \in EscapedInDoubleQuotes
                   THEN ReadDoubleQuoted(s, k + 2, Append(acc, s[k + 1]))
              ELSE IF s[k + 1] = "\n" THEN ReadDoubleQuoted(s, k + 2, acc)
              ELSE ReadDoubleQuoted(s, k + 2, acc \o <<"\\", s[k + 1]>>)
    ELSE IF s[k] = "$" /\ StartsExpansion(s, k)
         THEN [read |-> "expansion"]
    ELSE ReadDoubleQuoted(s, k + 1, Append(acc, s[k]))

\* The shell reading a word that starts with a double quote.
ShellRead(word) ==
    IF word # <<>> /\ word[1] = "\"" THEN ReadDoubleQuoted(word, 2, <<>>)
    ELSE [read |-> "more"]

\* The text with each line end replaced by a space.
FoldNewlines(s) == [k \in 1..Len(s) |-> IF s[k] = "\n" THEN " " ELSE s[k]]

\* The escaped text was put between double quotes.
Quoted == path = "escape" /\ pc = "done"

\* C20: for every text over the double quote, the apostrophe, the backslash, the
\* dollar sign and the line end (and a letter), the escaped text between
\* double quotes is read back by the shell as one argument: the text with each
\* line end replaced by a space.
C20_ShellReadsBackText ==
    Quoted => ShellRead(result.value) = [read |-> "argument", text |-> FoldNewlines(args.prompt)]

\* The shell reading one word made of single-quoted pieces and escaped
\* characters, from position k on, with acc read so far: the argument when the
\* word ends outside quotes at the end of s; "open" when a quote never closes;
\* "more" when the word ends before the end of s or another syntax starts.
RECURSIVE ReadSingleQuoted(_, _, _, _)
ReadSingleQuoted(s, k, quoted, acc) ==
    IF k > Len(s)
    THEN IF quoted THEN [read |-> "open"] ELSE [read |-> "argument", text |-> acc]
    ELSE IF quoted
         THEN IF s[k] = "'" THEN ReadSingleQuoted(s, k + 1, FALSE, acc)
              ELSE ReadSingleQuoted(s, k + 1, TRUE, Append(acc, s[k]))
    ELSE IF s[k] = "'" THEN ReadSingleQuoted(s, k + 1, TRUE, acc)
    ELSE IF s[k] = "\\"
         THEN IF k = Len(s) THEN [read |-> "open"]
              ELSE IF s[k + 1] = "\n" THEN ReadSingleQuoted(s, k + 2, FALSE, acc)
              ELSE ReadSingleQuoted(s, k + 2, FALSE, Append(acc, s[k + 1]))
    ELSE IF IsWordChar(s[k]) THEN ReadSingleQuoted(s, k + 1, FALSE, Append(acc, s[k]))
    ELSE [read |-> "more"]

\* AppleScript reading a string literal from position k on (after its opening
\* quote): the string when the closing quote is the last character of s.
RECURSIVE ReadAppleScriptString(_, _, _)
ReadAppleScriptString(s, k, acc) ==
    IF k > Len(s) THEN [read |-> "open"]
    ELSE IF s[k] = "\""
         THEN IF k = Len(s) THEN [read |-> "string", text |-> acc] ELSE [read |-> "more"]
    ELSE IF s[k] = "\\"
         THEN IF k = Len(s) THEN [read |-> "open"]
              ELSE IF s[k + 1] \in {"\\", "\""}
                   THEN ReadAppleScriptString(s, k + 2, Append(acc, s[k + 1]))
              ELSE IF s[k + 1] = "n" THEN ReadAppleScriptString(s, k + 2, Append(acc, "\n"))
              ELSE IF s[k + 1] = "t" THEN ReadAppleScriptString(s, k + 2, Append(acc, "\t"))
              ELSE IF s[k + 1] = "r" THEN ReadAppleScriptString(s, k + 2, Append(acc, "\r"))
              ELSE [read |-> "error"]
    ELSE ReadAppleScriptString(s, k + 1, Append(acc, s[k]))

\* The shell takes the single quotes off the argument of osascript, then
\* AppleScript reads the string literal the script consists of.
AppleScriptRead(word) ==
    LET script == ReadSingleQuoted(word, 1, FALSE, <<>>)
    IN  IF script.read # "argument" THEN script
        ELSE IF script.text # <<>> /\ script.text[1] = "\""
             THEN ReadAppleScriptString(script.text, 2, <<>>)
             ELSE [read |-> "more"]

\* The escaped text was put in the script of osascript.
AppleScriptQuoted == path = "escapeAppleScript" /\ pc = "done"

\* C21: for every text over the double quote, the apostrophe, the backslash and
\* the line end (and a dollar sign and a letter), the text escaped for
\* AppleScript, once the shell has taken the single quotes off the argument of
\* osascript and AppleScript has read the string literal, is the text with
\* each line end replaced by a space.
C21_AppleScriptReadsBackText ==
    AppleScriptQuoted =>
        AppleScriptRead(result.value) = [read |-> "string", text |-> FoldNewlines(args.prompt)]

\* A text with an apostrophe, a backslash and a line end was escaped and read
\* back folded.
C21_Witness ==
    /\ AppleScriptQuoted
    /\ {"'", "\\", "\n"} \subseteq Range(args.prompt)
    /\ AppleScriptRead(result.value).read = "string"
    /\ AppleScriptRead(result.value).text # args.prompt

\* The number of backslashes of s from position k on.
RECURSIVE BackslashRun(_, _)
BackslashRun(s, k) ==
    IF k <= Len(s) /\ s[k] = "\\" THEN 1 + BackslashRun(s, k + 1) ELSE 0

\* powershell.exe reading the text between the double quotes of its
\* argument, from position k on: 2n backslashes and a double quote are n
\* backslashes and the end of the quoted part, 2n+1 backslashes and a double
\* quote are n backslashes and a double quote, other backslashes stand for
\* themselves.
RECURSIVE ReadCommandLine(_, _, _)
ReadCommandLine(s, k, acc) ==
    IF k > Len(s) THEN [read |-> "argument", text |-> acc]
    ELSE IF s[k] = "\"" THEN [read |-> "more"]
    ELSE IF s[k] = "\\"
         THEN LET n == BackslashRun(s, k)
              IN  IF k + n <= Len(s) /\ s[k + n] = "\""
                  THEN IF n % 2 = 0 THEN [read |-> "more"]
                       ELSE ReadCommandLine(s, k + n + 1,
                                acc \o [j \in 1..(n \div 2) |-> "\\"] \o <<"\"">>)
                  ELSE ReadCommandLine(s, k + n, acc \o [j \in 1..n |-> "\\"])
    ELSE ReadCommandLine(s, k + 1, Append(acc, s[k]))

\* PowerShell reading a single-quoted literal from position k on (after its
\* opening quote): two apostrophes are one, one apostrophe ends the literal.
RECURSIVE ReadPowerShellLiteral(_, _, _)
ReadPowerShellLiteral(s, k, acc) ==
    IF k > Len(s) THEN [read |-> "open"]
    ELSE IF s[k] = "'"
         THEN IF k < Len(s) /\ s[k + 1] = "'"
              THEN ReadPowerShellLiteral(s, k + 2, Append(acc, "'"))
              ELSE IF k = Len(s) THEN [read |-> "string", text |-> acc]
              ELSE [read |-> "more"]
    ELSE ReadPowerShellLiteral(s, k + 1, Append(acc, s[k]))

\* powershell.exe reads its argument, then PowerShell reads the literal the
\* script consists of.
PowerShellRead(quoted) ==
    LET script == ReadCommandLine(quoted, 1, <<>>)
    IN  IF script.read # "argument" THEN script
        ELSE IF script.text # <<>> /\ script.text[1] = "'"
             THEN ReadPowerShellLiteral(script.text, 2, <<>>)
             ELSE [read |-> "more"]

\* The escaped text was put in the script of powershell.
PowerShellQuoted == path = "escapePowerShell" /\ pc = "done"

\* C22: for every text over the double quote, the apostrophe, the backslash and
\* the line end (and a dollar sign and a letter), the text escaped for
\* PowerShell and put in a single-quoted literal is read back as the text with
\* each line end replaced by a space.
C22_PowerShellReadsBackText ==
    PowerShellQuoted =>
        PowerShellRead(result.value) = [read |-> "string", text |-> FoldNewlines(args.prompt)]

\* What holds of the PowerShell escaping: a text without a line end and without
\* a backslash before a double quote is read back as it is.
PowerShellReadsBackPlainText ==
    (/\ PowerShellQuoted
     /\ "\n" \notin Range(args.prompt)
     /\ \A k \in 1..(Len(args.prompt) - 1) :
            ~(args.prompt[k] = "\\" /\ args.prompt[k + 1] = "\"")) =>
        PowerShellRead(result.value) = [read |-> "string", text |-> args.prompt]

\* The place of an external process in the order of showLinuxDialog and
\* showLinuxDropdown.
LinuxRank(cmd) ==
    CASE cmd = "which zenity" -> 1
      [] cmd = "zenity" -> 2
      [] cmd = "which kdialog" -> 3
      [] cmd = "kdialog" -> 4
      [] cmd = "bash" -> 5
      [] OTHER -> 0

\* The failure of the last attempt is what the invocation ended with: execute
\* returned success=false with its message, or threw it.
FailureReported ==
    /\ Done
    /\ \/ result.status = "thrown" /\ result.message = LastAttempt.message
       \/ /\ result.status = "returned"
          /\ result.value.success = FALSE
          /\ includes(result.value.error, LastAttempt.message)

\* C23: on Linux the processes run for one prompt are, in this order and each at
\* most once, the zenity probe, zenity, the kdialog probe, kdialog and the
\* terminal read; the terminal read is the last process of the prompt, and
\* when it fails the invocation has ended with that failure.
C23_LinuxOrderEndsAtTerminal ==
    platform = "linux" =>
        /\ \A a, b \in 1..Len(attempts) :
               a < b => LinuxRank(attempts[a].cmd) < LinuxRank(attempts[b].cmd)
        /\ \A a \in 1..Len(attempts) :
               attempts[a].cmd = "bash" =>
                   /\ a = Len(attempts)
                   /\ Done
                   /\ ~attempts[a].ok => FailureReported

\* The terminal read failed after zenity and kdialog were both shown for the
\* second question of a chain.
C23_Witness ==
    /\ platform = "linux" /\ path = "chain" /\ i = 1
    /\ [k \in 1..Len(attempts) |-> attempts[k].cmd]
           = <<"which zenity", "zenity", "which kdialog", "kdialog", "bash">>
    /\ ~LastAttempt.ok
    /\ FailureReported

\* The prompts that were presented and have resolved: the answered questions
\* of a chain and the question that was cancelled or failed; the single
\* question once its adapter has returned or thrown.
PromptsResolved ==
    IF path = "chain"
    THEN Len(given) + Cardinality({a \in 1..Len(attempts) : ~attempts[a].ok})
    ELSE IF attempts # <<>> THEN 1 ELSE 0

\* The one tool of the platform.
ToolOf(p) == IF p = "darwin" THEN "osascript" ELSE "powershell"

\* C24: on macOS and Windows every prompt that was presented and has resolved
\* (answered, cancelled or failed) was one external process, osascript or
\* powershell: no probe, no second attempt, no other tool.
C24_OneInvocationPerPrompt ==
    platform \in {"darwin", "win32"} =>
        /\ pc \in {"start", ToolOf(platform), "done"}
        /\ Len(attempts) <= 1
        /\ \A a \in 1..Len(attempts) : attempts[a].cmd = ToolOf(platform)
        /\ nSpawned = PromptsResolved

\* On Windows the first question of a chain was answered and the second failed:
\* two processes in all.
C24_Witness ==
    /\ platform = "win32" /\ path = "chain" /\ Done /\ i = 1
    /\ Len(given) = 1
    /\ attempts # <<>> /\ ~LastAttempt.ok /\ LastAttempt.user = "none"
    /\ nSpawned = 2

\* The error the PowerShell adapter of the prompt in hand throws for a
\* cancellation.
WindowsCancelMessage == IF IsDropdown THEN CancelledSelectionDialog ELSE CancelledInputDialog

\* C25: on Windows a powershell process that ended with status 0 either gave a
\* text that is not empty after trimming, which the adapter returned, or is
\* taken for a cancellation (text, password and dropdown prompts alike); no
\* answer of the invocation is the empty text.
C25_WindowsEmptyOutputIsCancel ==
    platform = "win32" =>
        /\ \A a \in 1..Len(attempts) :
               /\ attempts[a].ok => attempts[a].value # <<>>
               /\ (attempts[a].code = 0 /\ ~attempts[a].ok) =>
                      /\ attempts[a].question = i
                      /\ attempts[a].message = WindowsCancelMessage
        /\ \A k \in 1..Len(given) : given[k] # <<>>
        /\ (Returned /\ result.value.success /\ path = "single") =>
               result.value.output # <<>>

\* On Windows the user left the field of a password prompt empty and pressed
\* OK: powershell ended with status 0 and the adapter threw the cancellation.
C25_Witness ==
    /\ platform = "win32" /\ Done
    /\ attempts # <<>>
    /\ LastAttempt.password
    /\ LastAttempt.code = 0 /\ LastAttempt.user = "answer"
    /\ ~LastAttempt.ok /\ LastAttempt.message = CancelledInputDialog

\* showTerminalDropdown was called and the user typed something at its menu.
TerminalDropdownCalled == path = "terminalDropdown" /\ pc = "done"

\* The options the typed text is the number of: k with 1 <= k <= n.
Selected == {k \in 1..Len(args.options) : NumberToString(k) = attempts[1].typed}

\* C26: with n options in the terminal dropdown, typing a number k with
\* 1 <= k <= n returns the k-th option; typing anything else (not the empty line,
\* which takes the default) makes the adapter throw, and no option is returned.
C26_TerminalDropdownSelection ==
    (TerminalDropdownCalled /\ attempts[1].typed # <<>>) =>
        /\ \A k \in Selected : result = Returns(args.options[k])
        /\ Selected = {} => result = Throws(<<"Failed to read selection from terminal">>)

\* The second of two different options was picked by its number.
C26_Witness ==
    /\ TerminalDropdownCalled
    /\ args.options = <<Red, Blue>>
    /\ attempts[1].typed = <<"2">>
    /\ result = Returns(Blue)

\* The default value is given and is none of the options.
UnmatchedDefault ==
    /\ Has(args, "default_value")
    /\ args.default_value # <<>>
    /\ \A k \in 1..Len(args.options) : args.options[k] # args.default_value

\* C27: in the terminal dropdown, with a default value that is none of the
\* options, the empty line (the default accepted) returns the first option.
C27_UnmatchedDefaultIsFirstChoice ==
    (TerminalDropdownCalled /\ UnmatchedDefault /\ attempts[1].typed = <<>>) =>
        result = Returns(args.options[1])

\* What holds of the default: the empty line returns the default value when it
\* is one of the options, and the first option when there is no default value.
TerminalDropdownDefault ==
    (TerminalDropdownCalled /\ ~UnmatchedDefault /\ attempts[1].typed = <<>>) =>
        result = Returns(IF Get(args, "default_value", <<>>) # <<>>
                         THEN args.default_value ELSE args.options[1])

\* C28: in a chain one question is in hand at a time: every process run for the
\* prompt in hand is for question i, question i is presented only when each of
\* the questions 0..i-1 has an answer, and once the adapter of question i threw
\* a cancellation or a failure to the loop the invocation has ended at
\* question i.
C28_OneQuestionAtATime ==
    path = "chain" =>
        /\ i <= Len(args.questions)
        /\ Len(given) = i
        /\ ~Done => \A a \in 1..Len(attempts) : attempts[a].question = i
        /\ (Done /\ attempts # <<>>) =>
               /\ \A a \in 1..Len(attempts) : attempts[a].question = LastAttempt.question
               /\ LastAttempt.question = IF LastAttempt.ok THEN i - 1 ELSE i
               /\ ~LastAttempt.ok => (result.status = "thrown" \/ ~result.value.success)
        /\ nSpawned >= i

\* The second question of a chain is presented, the first one answered.
C28_Witness ==
    /\ path = "chain" /\ ~Done
    /\ i = 1 /\ Len(given) = 1
    /\ attempts = <<>>
    /\ nSpawned >= 1

\* The chain returned 'User cancelled at question i+1'.
ReportsCancellation == path = "chain" /\ Returned /\ result.value = ChainCancelled(i, answers)

\* C29: a chain returns 'User cancelled at question i+1' only when the user
\* cancelled the dialog of question i: a process that failed otherwise, or that
\* the user answered, is never reported as a cancellation, whatever the text of
\* the prompt.
C29_CancellationOnlyWhenCancelled ==
    ReportsCancellation => (attempts # <<>> /\ LastAttempt.question = i /\ LastAttempt.user = "cancel")

\* The part of C29 that fails for the text of the prompt alone: on macOS a
\* failure of osascript that is no cancellation is not reported as one.
MacOSFailureIsNoCancellation ==
    (platform = "darwin" /\ ReportsCancellation) => LastAttempt.user # "none"

\* C30: for every prompt and every position index >= 0, generateAnswerKey returns
\* a text that is not empty and holds no upper-case letter.
C30_KeyIsNonEmptyLowerCase ==
    KeyDerived =>
        /\ result.status = "returned"
        /\ result.value # <<>>
        /\ Range(result.value) \cap Range(UpperChars) = {}

\* A key was derived from a word of the prompt spelled with an upper-case
\* letter.
C30_Witness ==
    /\ KeyDerived
    /\ "N" \in Range(args.prompt)
    /\ result.value = <<"n", "a", "m", "e">>

====
